---- MODULE Spec2Model ----
(***************************************************************************)
(* A model of walk-the-dog: the character state machine                    *)
(* (game.rs, mod red_hat_boy_states and RedHatBoyStateMachine), the        *)
(* obstacles and their collision response, the segment generator, the     *)
(* session state machine (Ready / Walking / GameOver) and the fixed         *)
(* timestep loop of engine.rs.                                              *)
(***************************************************************************)
EXTENDS Integers, Sequences, FiniteSets, TLC

(***************************************************************************)
(* Program constants.                                                       *)
(***************************************************************************)
HEIGHT == 600
OBSTACLE_BUFFER == 20
TIMELINE_MINIMUM == 1000
FALLING_FRAMES == 29
FLOOR == 479
GRAVITY == 1
IDLE_FRAMES == 29
JUMP_SPEED == -25
JUMPING_FRAMES == 35
PLAYER_HEIGHT == HEIGHT - FLOOR
RUNNING_FRAMES == 23
RUNNING_SPEED == 4
SLIDING_FRAMES == 14
STARTING_POINT == -20
TERMINAL_VELOCITY == 20
FIRST_PLATFORM == 400
LOW_PLATFORM == 420
HIGH_PLATFORM == 375
INITIAL_STONE_OFFSET == 150
STONE_ON_GROUND == 546
FRAME_SIZE == 50  \* 1.0 / 60.0 * 1000.0 ms, in thirds of a millisecond

(***************************************************************************)
(* Bounds of the exploration.                                               *)
(***************************************************************************)
MaxIdle == 2        \* Ready updates without ArrowRight, per game
MaxWalk == 100      \* Walking updates, over all games
MaxGames == 1       \* restarts
MaxClicks == 2      \* clicks queued in the channel
MaxJumpSample == 49 \* Updates of the sampled jump
MaxScroll == 360    \* updates of the long walk
MaxTime == 300      \* the latest frame timestamp, in thirds of a millisecond
MaxKeyEvents == 2   \* key events, over the run

(***************************************************************************)
(* i16 arithmetic: Point and Rect hold i16 scalars; a release build wraps.  *)
(***************************************************************************)
I16(n) == ((n + 32768) % 65536) - 32768

\* the element of a one-element set (binds a computed value once)
Only(S) == CHOOSE x \in S : TRUE

VARIABLES
  boy,        \* RedHatBoy.state_machine: [state, frame, px, py, vx, vy]
  arm,        \* observation: which arm the last transition took ("arm" or "self")
  script,     \* observation: the event scenario in progress and its Update count
  session,    \* WalkTheDogStateMachine variant: "Ready", "Walking", "GameOver"
  backgrounds,\* Walk.backgrounds: the x of the two background images
  obstacles,  \* Walk.obstacles: the obstacle list
  timeline,   \* Walk.timeline
  clicks,     \* GameOver.new_game_event: click events queued in the channel
  steps,      \* bookkeeping of the exploration bounds: updates and games so
              \* far; and the clicks left in the dropped channels
  op,         \* observation: the last operation, its scroll amount and segment
  fired,      \* observation: the events the last operation fired on the character
  game_loop,  \* GameLoop: [accumulated_delta, last_frame]
  keystate,   \* KeyState.pressed_keys: the codes of the pressed keys
  keyevent_receiver, \* the channel of key events not yet processed
  raf         \* the frame callback: its position, its timestamp and the
              \* number of callbacks pending with the frame scheduler; as
              \* observation the accumulator it started with, the elapsed
              \* time, the updates it has made, its side effects in order,
              \* the loop's start time and the updates made since, the
              \* key state and the key events it found and the key states
              \* its updates were given, and the step GameLoop::start
              \* failed at

boyVars == <<boy, arm, script>>
walkVars == <<session, backgrounds, obstacles, timeline, clicks, steps>>
obsVars == <<op, fired>>
loopVars == <<game_loop, keystate, keyevent_receiver, raf>>
vars == <<boy, arm, script, session, backgrounds, obstacles, timeline, clicks,
          steps, op, fired, game_loop, keystate, keyevent_receiver, raf>>

(***************************************************************************)
(* Events of the character state machine (enum Event).  Land carries the    *)
(* y it lands on; the other events carry nothing (position 0).              *)
(***************************************************************************)
Ev(t) == [type |-> t, position |-> 0]
Land(y) == [type |-> "Land", position |-> y]

\* the y values the game lands the character on: the two platform heights
\* (box_to_land_on.y() of a floating platform)
LandPositions == {LOW_PLATFORM, HIGH_PLATFORM}

Events == {Ev(t) : t \in {"Run", "Jump", "Slide", "KnockOut", "Update"}}
            \cup {Land(y) : y \in LandPositions}

(***************************************************************************)
(* RedHatBoyContext and its methods.                                        *)
(***************************************************************************)
reset_frame(c) == [c EXCEPT !.frame = 0]

run_right(c) == [c EXCEPT !.vx = I16(c.vx + RUNNING_SPEED)]

\* mutant: the character is put at the y it lands on, not above it
set_onAt(c, position) == [c EXCEPT !.py = position]

set_on(c, position) == [c EXCEPT !.py = I16(position - PLAYER_HEIGHT)]

set_vertical_velocity(c, y) == [c EXCEPT !.vy = y]

stop(c) == [c EXCEPT !.vx = 0]

\* mutant: gravity is added without the terminal-velocity test
ContextUpdateNoCap(c, frame_count) ==
  LET vy1 == I16(c.vy + GRAVITY)
      fr1 == IF c.frame < frame_count THEN c.frame + 1 ELSE 0
      py1 == I16(c.py + vy1)
      py2 == IF py1 > FLOOR THEN FLOOR ELSE py1
  IN  [c EXCEPT !.vy = vy1, !.frame = fr1, !.py = py2]

\* mutant: the position advances by the velocity as it was before gravity
ContextUpdateOldVelocity(c, frame_count) ==
  LET vy1 == IF c.vy < TERMINAL_VELOCITY THEN I16(c.vy + GRAVITY) ELSE c.vy
      fr1 == IF c.frame < frame_count THEN c.frame + 1 ELSE 0
      py1 == I16(c.py + c.vy)
      py2 == IF py1 > FLOOR THEN FLOOR ELSE py1
  IN  [c EXCEPT !.vy = vy1, !.frame = fr1, !.py = py2]

\* mutant: the frame counter wraps one Update late (<= instead of <)
ContextUpdateWrapLate(c, frame_count) ==
  LET vy1 == IF c.vy < TERMINAL_VELOCITY THEN I16(c.vy + GRAVITY) ELSE c.vy
      fr1 == IF c.frame <= frame_count THEN c.frame + 1 ELSE 0
      py1 == I16(c.py + vy1)
      py2 == IF py1 > FLOOR THEN FLOOR ELSE py1
  IN  [c EXCEPT !.vy = vy1, !.frame = fr1, !.py = py2]

ContextUpdate(c, frame_count) ==
  LET vy1 == IF c.vy < TERMINAL_VELOCITY THEN I16(c.vy + GRAVITY) ELSE c.vy
      fr1 == IF c.frame < frame_count THEN c.frame + 1 ELSE 0
      py1 == I16(c.py + vy1)
      py2 == IF py1 > FLOOR THEN FLOOR ELSE py1
  IN  [c EXCEPT !.vy = vy1, !.frame = fr1, !.py = py2]

As(c, s) == [c EXCEPT !.state = s]

(***************************************************************************)
(* RedHatBoyState<S> methods, one operator per typestate method.            *)
(***************************************************************************)
IdleNew ==
  [state |-> "Idle", frame |-> 0, px |-> STARTING_POINT, py |-> FLOOR,
   vx |-> 0, vy |-> 0]

Idle_run(c) == As(run_right(reset_frame(c)), "Running")

Idle_update(c) == ContextUpdate(c, IDLE_FRAMES)

\* mutant: the fall ends one frame late (> instead of >=)
Falling_updateLate(c) ==
  LET c1 == ContextUpdate(c, FALLING_FRAMES)
  IN  IF c1.frame > FALLING_FRAMES THEN As(c1, "KnockedOut") ELSE c1

Falling_update(c) ==
  LET c1 == ContextUpdate(c, FALLING_FRAMES)
  IN  IF c1.frame >= FALLING_FRAMES THEN As(c1, "KnockedOut") ELSE c1

Jumping_knock_out(c) == As(stop(reset_frame(c)), "Falling")

Jumping_land_on(c, position) == As(set_on(reset_frame(c), position), "Running")

\* mutant: the auto-landing lands on FLOOR instead of HEIGHT
Jumping_updateLandFloor(c) ==
  LET c1 == ContextUpdate(c, JUMPING_FRAMES)
  IN  IF c1.py >= FLOOR THEN Jumping_land_on(c1, FLOOR) ELSE c1

Jumping_update(c) ==
  LET c1 == ContextUpdate(c, JUMPING_FRAMES)
  IN  IF c1.py >= FLOOR THEN Jumping_land_on(c1, HEIGHT) ELSE c1

\* mutant: the frame counter is not set back before the update (it loops)
KnockedOut_updateLoop(c) == ContextUpdate(c, FALLING_FRAMES)

KnockedOut_update(c) ==
  ContextUpdate([c EXCEPT !.frame = FALLING_FRAMES - 1], FALLING_FRAMES)

Running_jump(c) ==
  As(set_vertical_velocity(reset_frame(c), JUMP_SPEED), "Jumping")

Running_knock_out(c) == As(stop(reset_frame(c)), "Falling")

Running_land_on(c, position) == set_on(c, position)

Running_slide(c) == As(reset_frame(c), "Sliding")

Running_update(c) == ContextUpdate(c, RUNNING_FRAMES)

Sliding_knock_out(c) == As(stop(reset_frame(c)), "Falling")

Sliding_land_on(c, position) == set_on(c, position)

\* mutant: standing up keeps the frame counter of the slide
Sliding_standKeep(c) == As(c, "Running")

Sliding_stand(c) == As(reset_frame(c), "Running")

\* mutant: the slide ends one frame late (> instead of >=)
Sliding_updateLate(c) ==
  LET c1 == ContextUpdate(c, SLIDING_FRAMES)
  IN  IF c1.frame > SLIDING_FRAMES THEN Sliding_stand(c1) ELSE c1

Sliding_update(c) ==
  LET c1 == ContextUpdate(c, SLIDING_FRAMES)
  IN  IF c1.frame >= SLIDING_FRAMES THEN Sliding_stand(c1) ELSE c1

(***************************************************************************)
(* RedHatBoyStateMachine::transition: the match on (state, event), its arms *)
(* grouped by state variant; every pair without an arm returns self.        *)
(***************************************************************************)
MatchArms ==
  {<<"Idle", "Run">>, <<"Idle", "Update">>, <<"Falling", "Update">>,
   <<"Jumping", "KnockOut">>, <<"Jumping", "Land">>, <<"Jumping", "Update">>,
   <<"KnockedOut", "Update">>,
   <<"Running", "Jump">>, <<"Running", "KnockOut">>, <<"Running", "Land">>,
   <<"Running", "Slide">>, <<"Running", "Update">>,
   <<"Sliding", "KnockOut">>, <<"Sliding", "Land">>, <<"Sliding", "Update">>}

OnIdle(b, e) ==
  CASE e.type = "Run" -> Idle_run(b)
    [] e.type = "Update" -> Idle_update(b)
    [] OTHER -> b

\* mutant: a KnockOut is also handled while Falling (the fall starts over)
OnFallingKnockOut(b, e) ==
  CASE e.type = "Update" -> Falling_update(b)
    [] e.type = "KnockOut" -> Running_knock_out(b)
    [] OTHER -> b

OnFalling(b, e) ==
  CASE e.type = "Update" -> Falling_update(b)
    [] OTHER -> b

OnJumping(b, e) ==
  CASE e.type = "KnockOut" -> Jumping_knock_out(b)
    [] e.type = "Land" -> Jumping_land_on(b, e.position)
    [] e.type = "Update" -> Jumping_update(b)
    [] OTHER -> b

OnKnockedOut(b, e) ==
  CASE e.type = "Update" -> KnockedOut_update(b)
    [] OTHER -> b

\* mutant: Run is also handled while Running (the running speed is added again)
OnRunningRun(b, e) ==
  CASE e.type = "Jump" -> Running_jump(b)
    [] e.type = "KnockOut" -> Running_knock_out(b)
    [] e.type = "Land" -> Running_land_on(b, e.position)
    [] e.type = "Slide" -> Running_slide(b)
    [] e.type = "Update" -> Running_update(b)
    [] e.type = "Run" -> run_right(b)
    [] OTHER -> b

OnRunning(b, e) ==
  CASE e.type = "Jump" -> Running_jump(b)
    [] e.type = "KnockOut" -> Running_knock_out(b)
    [] e.type = "Land" -> Running_land_on(b, e.position)
    [] e.type = "Slide" -> Running_slide(b)
    [] e.type = "Update" -> Running_update(b)
    [] OTHER -> b

OnSliding(b, e) ==
  CASE e.type = "KnockOut" -> Sliding_knock_out(b)
    [] e.type = "Land" -> Sliding_land_on(b, e.position)
    [] e.type = "Update" -> Sliding_update(b)
    [] OTHER -> b

transition(b, e) ==
  CASE b.state = "Idle" -> OnIdle(b, e)
    [] b.state = "Falling" -> OnFalling(b, e)
    [] b.state = "Jumping" -> OnJumping(b, e)
    [] b.state = "KnockedOut" -> OnKnockedOut(b, e)
    [] b.state = "Running" -> OnRunning(b, e)
    [] b.state = "Sliding" -> OnSliding(b, e)

(***************************************************************************)
(* Observation of the event scenario in progress.  "fresh": only Updates    *)
(* so far; "run": only Run and Update events so far, at least one Run;      *)
(* "slide" / "jump": the last event other than Update was a Slide / Jump    *)
(* applied to a Running character, followed by n Updates.                   *)
(***************************************************************************)
NoScript == [kind |-> "none", n |-> 0]

ScriptNext(s, b, e) ==
  CASE e.type = "Update" /\ s.kind \in {"fresh", "run"} -> s
    [] e.type = "Update" /\ s.kind = "slide" /\ s.n < SLIDING_FRAMES ->
         [s EXCEPT !.n = @ + 1]
    [] e.type = "Update" /\ s.kind = "jump" /\ b.state = "Jumping" ->
         [s EXCEPT !.n = @ + 1]
    [] e.type = "Run" /\ s.kind \in {"fresh", "run"} -> [kind |-> "run", n |-> 0]
    [] e.type = "Slide" /\ b.state = "Running" -> [kind |-> "slide", n |-> 0]
    [] e.type = "Jump" /\ b.state = "Running" -> [kind |-> "jump", n |-> 0]
    [] OTHER -> NoScript

(***************************************************************************)
(* Geometry (engine.rs): Rect and its intersection test.                    *)
(***************************************************************************)
Rect(x, y, width, height) == [x |-> x, y |-> y, width |-> width, height |-> height]

right(r) == I16(r.x + r.width)

bottom(r) == I16(r.y + r.height)

intersects(a, b) ==
  /\ a.x < right(b)
  /\ right(a) > b.x
  /\ a.y < bottom(b)
  /\ bottom(a) > b.y

(***************************************************************************)
(* Assets.  The images and the sprite sheet are loaded at initialization;   *)
(* the model fixes their geometry: the stone image, the background image    *)
(* and, for each animation of rhb.json, the cell of its frames              *)
(* (sprite_source_size x, y and frame w, h; one geometry per animation).    *)
(***************************************************************************)
StoneImage == [width |-> 54, height |-> 54]

BackgroundImage == [width |-> 200, height |-> 600]

RhbSheet ==
  [n \in {"Idle", "Run", "Jump", "Dead", "Slide"} |->
     IF n = "Slide"
       THEN [sx |-> 58, sy |-> 40, w |-> 71, h |-> 81]
       ELSE [sx |-> 58, sy |-> 8, w |-> 71, h |-> 113]]

(***************************************************************************)
(* RedHatBoy: the sprite of the current frame and the bounding box.         *)
(***************************************************************************)
StateFrameName(state) ==
  CASE state = "Idle" -> "Idle"
    [] state = "Running" -> "Run"
    [] state = "Jumping" -> "Jump"
    [] state = "Sliding" -> "Slide"
    [] state \in {"Falling", "KnockedOut"} -> "Dead"

\* RedHatBoy::frame_name: the animation name and the cell index frame / 3 + 1
frame_name(b) == <<StateFrameName(b.state), (b.frame \div 3) + 1>>

current_sprite(b) == RhbSheet[frame_name(b)[1]]

destination_box(b) ==
  LET sprite == current_sprite(b)
  IN  Rect(I16(b.px + sprite.sx), I16(b.py + sprite.sy), sprite.w, sprite.h)

X_OFFSET == 18
Y_OFFSET == 14
WIDTH_OFFSET == 28

bounding_box(b) ==
  LET d == destination_box(b)
  IN  Rect(I16(d.x + X_OFFSET), I16(d.y + Y_OFFSET),
           I16(d.width - WIDTH_OFFSET), I16(d.height - Y_OFFSET))

(***************************************************************************)
(* Obstacles: Barrier (an image) and Platform (a position and its bounding  *)
(* boxes), with the Obstacle trait's methods.                               *)
(***************************************************************************)
Barrier(x, y) ==
  [kind |-> "Barrier", image |-> Rect(x, y, StoneImage.width, StoneImage.height)]

FLOATING_PLATFORM_BOUNDING_BOXES ==
  <<Rect(0, 0, 60, 54), Rect(60, 0, 384 - (60 * 2), 93), Rect(384 - 60, 0, 60, 54)>>

\* Platform::new: the bounding boxes are placed relative to the position
Platform(x, y) ==
  [kind |-> "Platform", x |-> x, y |-> y,
   bounding_boxes |->
     [i \in DOMAIN FLOATING_PLATFORM_BOUNDING_BOXES |->
        LET bb == FLOATING_PLATFORM_BOUNDING_BOXES[i]
        IN  Rect(I16(bb.x + x), I16(bb.y + y), bb.width, bb.height)]]

obstacle_right(o) ==
  IF o.kind = "Barrier"
    THEN right(o.image)
    ELSE IF Len(o.bounding_boxes) = 0
           THEN 0
           ELSE right(o.bounding_boxes[Len(o.bounding_boxes)])

move_horizontally(o, dx) ==
  IF o.kind = "Barrier"
    THEN [o EXCEPT !.image.x = I16(@ + dx)]
    ELSE [o EXCEPT !.x = I16(@ + dx),
                   !.bounding_boxes =
                      [i \in DOMAIN o.bounding_boxes |->
                         [o.bounding_boxes[i] EXCEPT !.x = I16(@ + dx)]]]

NoEvent == [type |-> "None", position |-> 0]

\* mutant: the barrier is fatal only to a descending character
BarrierEventDescending(o, b) ==
  IF intersects(bounding_box(b), o.image) /\ b.vy > 0
    THEN Ev("KnockOut")
    ELSE NoEvent

\* Barrier::check_intersection: the event fired on the character, if any
BarrierEvent(o, b) ==
  IF intersects(bounding_box(b), o.image) THEN Ev("KnockOut") ELSE NoEvent

FirstHit(o, b) ==
  LET hits == {i \in DOMAIN o.bounding_boxes :
                 intersects(bounding_box(b), o.bounding_boxes[i])}
  IN  IF hits = {} THEN 0 ELSE CHOOSE i \in hits : \A j \in hits : i <= j

\* mutant: a descending character lands whatever its height
PlatformEventAnyHeight(o, b) ==
  LET i == FirstHit(o, b)
  IN  IF i = 0
        THEN NoEvent
        ELSE IF b.vy > 0
               THEN Land(o.bounding_boxes[i].y)
               ELSE Ev("KnockOut")

\* Platform::check_intersection: the event fired on the character, if any
PlatformEvent(o, b) ==
  LET i == FirstHit(o, b)
  IN  IF i = 0
        THEN NoEvent
        ELSE IF b.vy > 0 /\ b.py < o.y
               THEN Land(o.bounding_boxes[i].y)
               ELSE Ev("KnockOut")

CheckEvent(o, b) ==
  IF o.kind = "Barrier" THEN BarrierEvent(o, b) ELSE PlatformEvent(o, b)

\* boy.knock_out() / boy.land_on(y), or nothing
Fire(b, e) == IF e = NoEvent THEN b ELSE transition(b, e)

\* Obstacle::check_intersection
check_intersection(o, b) == Only({Fire(b, e) : e \in {CheckEvent(o, b)}})

(***************************************************************************)
(* Segments (segments.rs) and the rightmost edge of an obstacle list.       *)
(***************************************************************************)
platform_and_stone(offset_x) ==
  <<Barrier(I16(offset_x + INITIAL_STONE_OFFSET), STONE_ON_GROUND),
    Platform(I16(offset_x + FIRST_PLATFORM), HIGH_PLATFORM)>>

stone_and_platform(offset_x) ==
  <<Barrier(I16(offset_x + INITIAL_STONE_OFFSET), STONE_ON_GROUND),
    Platform(I16(offset_x + FIRST_PLATFORM), LOW_PLATFORM)>>

RECURSIVE MaxRight(_, _)
MaxRight(list, i) ==
  IF i > Len(list)
    THEN -32768
    ELSE LET rest == MaxRight(list, i + 1)
             r == obstacle_right(list[i])
         IN  IF r >= rest THEN r ELSE rest

\* mutant: the right edge of the first obstacle instead of the largest one
rightmostFirst(list) == IF Len(list) = 0 THEN 0 ELSE obstacle_right(list[1])

rightmost(list) == IF Len(list) = 0 THEN 0 ELSE MaxRight(list, 1)

(***************************************************************************)
(* Walk: the world of one game.                                             *)
(***************************************************************************)
\* mutant: the new segment is put in front of the list
AppendSegmentInFront(list, segment) == segment \o list

\* Vec::append in generate_next_segment
AppendSegment(list, segment) == list \o segment

\* Walk::generate_next_segment with the generator's draw `next_segment`
generate_next_segment(w, next_segment) ==
  LET next_obstacles ==
        CASE next_segment = 0 -> stone_and_platform(I16(w.timeline + OBSTACLE_BUFFER))
          [] next_segment = 1 -> platform_and_stone(I16(w.timeline + OBSTACLE_BUFFER))
          [] OTHER -> <<>>
  IN  [w EXCEPT !.timeline = rightmost(next_obstacles),
                !.obstacles = AppendSegment(w.obstacles, next_obstacles)]

\* mutant: the character of the replaced world is kept
RedHatBoyResetKeep(b) == b

\* RedHatBoy::reset: a new character (the assets are reused)
RedHatBoyReset(b) == IdleNew

\* Walk::reset
WalkReset(w) ==
  LET starting_obstacles == stone_and_platform(0)
  IN  [backgrounds |-> w.backgrounds,
       boy |-> RedHatBoyReset(w.boy),
       obstacles |-> starting_obstacles,
       timeline |-> rightmost(starting_obstacles)]

\* Walk::velocity, of the character b
velocity(b) == I16(-b.vx)

\* the Walk built by WalkTheDog::initialize
InitialWalk ==
  LET starting_obstacles == stone_and_platform(0)
  IN  [backgrounds |-> <<0, BackgroundImage.width>>,
       boy |-> IdleNew,
       obstacles |-> starting_obstacles,
       timeline |-> rightmost(starting_obstacles)]

(***************************************************************************)
(* WalkTheDogState<Walking>::update, in its steps.                          *)
(***************************************************************************)
\* the input events: Slide if ArrowDown is pressed, then Jump if Space is
\* mutant: Jump is fired before Slide
InputEventsJumpFirst(keys) ==
  (IF "Space" \in keys THEN <<Ev("Jump")>> ELSE <<>>)
    \o (IF "ArrowDown" \in keys THEN <<Ev("Slide")>> ELSE <<>>)

InputEvents(keys) ==
  (IF "ArrowDown" \in keys THEN <<Ev("Slide")>> ELSE <<>>)
    \o (IF "Space" \in keys THEN <<Ev("Jump")>> ELSE <<>>)

RECURSIVE FireAll(_, _, _)
FireAll(b, events, i) ==
  IF i > Len(events)
    THEN b
    ELSE Only({FireAll(b1, events, i + 1) : b1 \in {transition(b, events[i])}})

\* boy.slide(), boy.jump() as the keys say, then boy.update()
InputAndUpdate(b, keys) ==
  Only({transition(b1, Ev("Update")) : b1 \in {FireAll(b, InputEvents(keys), 1)}})

\* mutant: a background that left the screen is put at the x the second
\* one started at, wherever its sibling is
ScrollBackgroundsFixed(bg, v) ==
  LET w == BackgroundImage.width
      f1 == I16(bg[1] + v)
      s1 == I16(bg[2] + v)
      f2 == IF I16(f1 + w) < 0 THEN w ELSE f1
      s2 == IF I16(s1 + w) < 0 THEN w ELSE s1
  IN  <<f2, s2>>

\* both backgrounds move; one that left the screen is put behind the other
ScrollBackgrounds(bg, v) ==
  LET w == BackgroundImage.width
      f1 == I16(bg[1] + v)
      s1 == I16(bg[2] + v)
      f2 == IF I16(f1 + w) < 0 THEN I16(s1 + w) ELSE f1
      s2 == IF I16(s1 + w) < 0 THEN I16(f2 + w) ELSE s1
  IN  <<f2, s2>>

\* mutant: an obstacle whose right edge is at 0 is kept
RetainAtEdge(list) == SelectSeq(list, LAMBDA o : obstacle_right(o) >= 0)

\* obstacles.retain(|obstacle| obstacle.right() > 0)
Retain(list) == SelectSeq(list, LAMBDA o : obstacle_right(o) > 0)

\* mutant: a segment is generated at the minimum already
needs_segmentAtMinimum(t) == t <= TIMELINE_MINIMUM

\* the generation check: self.walk.timeline < TIMELINE_MINIMUM
needs_segment(t) == t < TIMELINE_MINIMUM

\* one obstacle of the for_each: it is moved, then checked against the
\* character as the earlier checks left it
Hit(acc, i, o) ==
  Only({[obstacles |-> [acc.obstacles EXCEPT ![i] = o],
         boy |-> Fire(acc.boy, e),
         fired |-> IF e = NoEvent THEN acc.fired ELSE Append(acc.fired, e)]
          : e \in {CheckEvent(o, acc.boy)}})

\* mutant: the obstacle is checked where it was, and moved afterwards
MoveAndCheckOneCheckFirst(acc, i, v) ==
  Only({[h EXCEPT !.obstacles[i] = move_horizontally(acc.obstacles[i], v)]
          : h \in {Hit(acc, i, acc.obstacles[i])}})

MoveAndCheckOne(acc, i, v) ==
  Only({Hit(acc, i, o) : o \in {move_horizontally(acc.obstacles[i], v)}})

RECURSIVE MoveAndCheck(_, _, _)
MoveAndCheck(acc, i, v) ==
  IF i > Len(acc.obstacles)
    THEN acc
    ELSE Only({MoveAndCheck(a, i + 1, v) : a \in {MoveAndCheckOne(acc, i, v)}})

(***************************************************************************)
(* The session state machine (WalkTheDogStateMachine) over the variables.   *)
(***************************************************************************)
Keys == {"ArrowRight", "ArrowDown", "Space"}

\* the keys WalkTheDogState<Walking>::update asks for
WalkingKeys == {"ArrowDown", "Space"}

Walk ==
  [backgrounds |-> backgrounds, boy |-> boy, obstacles |-> obstacles,
   timeline |-> timeline]

SetWalk(walk) ==
  \E w \in {walk} :
    /\ backgrounds' = w.backgrounds
    /\ boy' = w.boy
    /\ obstacles' = w.obstacles
    /\ timeline' = w.timeline

NoOp == [name |-> "init", v |-> 0, gen |-> -1, start |-> FALSE]

Op(name) == [name |-> name, v |-> 0, gen |-> -1, start |-> FALSE]

\* mutant: the walk starts without the Run event
start_runningNoRun(b) == b

\* WalkTheDogState<Ready>::start_running: run_right fires Run
start_running(b) == transition(b, Ev("Run"))

\* mutant: the new receiver is fed what the dropped channels still held
add_click_handlerStale(stale) == stale

\* engine::add_click_handler: a new channel, with nothing in it
add_click_handler(stale) == 0

\* mutant: a falling character already counts as knocked out
knocked_outOrFalling(b) == b.state \in {"KnockedOut", "Falling"}

\* Walk::knocked_out
knocked_out(b) == b.state = "KnockedOut"

\* WalkTheDogState<Ready>::update: the character is updated, then ArrowRight
\* starts the walk (start_running fires Run)
ReadyUpdate(keys) ==
  /\ session = "Ready"
  /\ LET b1 == transition(boy, Ev("Update"))
     IN  IF "ArrowRight" \in keys
           THEN /\ boy' = start_running(b1)
                /\ session' = "Walking"
                /\ fired' = <<Ev("Update"), Ev("Run")>>
                /\ steps' = steps
           ELSE /\ steps.idle < MaxIdle
                /\ boy' = b1
                /\ session' = "Ready"
                /\ fired' = <<Ev("Update")>>
                /\ steps' = [steps EXCEPT !.idle = @ + 1]
  /\ op' = [Op("ready_update") EXCEPT !.start = "ArrowRight" \in keys]
  /\ UNCHANGED <<backgrounds, obstacles, timeline, clicks, arm, script>>

\* WalkTheDogState<Walking>::update; next_segment is the generator's draw,
\* made only when a segment is generated.  end_game draws the button and
\* opens a new click channel.
WalkingUpdate(keys) ==
  /\ session = "Walking"
  /\ steps.walk < MaxWalk
  /\ \E b1 \in {InputAndUpdate(boy, keys)} :
     \E walking_speed \in {velocity(b1)} :
     \E checked \in {MoveAndCheck([obstacles |-> Retain(obstacles), boy |-> b1,
                                   fired |-> Append(InputEvents(keys), Ev("Update"))],
                                  1, walking_speed)} :
       /\ backgrounds' = ScrollBackgrounds(backgrounds, walking_speed)
       /\ boy' = checked.boy
       /\ fired' = checked.fired
       /\ IF needs_segment(timeline)
            THEN \E next_segment \in {0, 1} :
                 \E w \in {generate_next_segment(
                             [obstacles |-> checked.obstacles, timeline |-> timeline],
                             next_segment)} :
                   /\ obstacles' = w.obstacles
                   /\ timeline' = w.timeline
                   /\ op' = [Op("walking_update") EXCEPT
                               !.v = walking_speed, !.gen = next_segment]
            ELSE /\ obstacles' = checked.obstacles
                 /\ timeline' = I16(timeline + walking_speed)
                 /\ op' = [Op("walking_update") EXCEPT !.v = walking_speed]
  /\ IF knocked_out(boy')
       THEN session' = "GameOver" /\ clicks' = add_click_handler(steps.dropped)
       ELSE session' = "Walking" /\ clicks' = clicks
  /\ steps' = [steps EXCEPT !.walk = @ + 1]
  /\ UNCHANGED <<arm, script>>

\* mutant: the character is still updated while the game is over
GameOverUpdateFalls ==
  /\ session = "GameOver"
  /\ IF clicks > 0
       THEN /\ steps.games < MaxGames
            /\ SetWalk(WalkReset(Walk))
            /\ session' = "Ready"
            /\ clicks' = 0
            /\ steps' = [steps EXCEPT !.games = @ + 1, !.idle = 0,
                                      !.dropped = @ + (clicks - 1)]
            /\ op' = Op("new_game")
       ELSE /\ boy' = transition(boy, Ev("Update"))
            /\ UNCHANGED <<backgrounds, obstacles, timeline, session,
                           clicks, steps>>
            /\ op' = Op("game_over_update")
  /\ fired' = <<>>
  /\ UNCHANGED <<arm, script>>

\* WalkTheDogState<GameOver>::update: new_game_pressed takes one click from
\* the channel; new_game resets the Walk, and the GameOver state is dropped
\* with its receiver and the clicks left in it
GameOverUpdate ==
  /\ session = "GameOver"
  /\ IF clicks > 0
       THEN /\ steps.games < MaxGames
            /\ SetWalk(WalkReset(Walk))
            /\ session' = "Ready"
            /\ clicks' = 0
            /\ steps' = [steps EXCEPT !.games = @ + 1, !.idle = 0,
                                      !.dropped = @ + (clicks - 1)]
            /\ op' = Op("new_game")
       ELSE /\ UNCHANGED <<backgrounds, boy, obstacles, timeline, session,
                           clicks, steps>>
            /\ op' = Op("game_over_update")
  /\ fired' = <<>>
  /\ UNCHANGED <<arm, script>>

\* the click handler of the New Game button (add_click_handler)
Click ==
  /\ session = "GameOver"
  /\ clicks < MaxClicks
  /\ clicks' = clicks + 1
  /\ op' = Op("click")
  /\ fired' = <<>>
  /\ UNCHANGED <<boy, arm, script, session, backgrounds, obstacles, timeline,
                 steps>>

\* WalkTheDogStateMachine::update
GameUpdate(keys) ==
  \/ ReadyUpdate(keys)
  \/ WalkingUpdate(keys)
  \/ GameOverUpdate

\* the state after WalkTheDog::initialize
WorldInit ==
  /\ boy = InitialWalk.boy
  /\ backgrounds = InitialWalk.backgrounds
  /\ obstacles = InitialWalk.obstacles
  /\ timeline = InitialWalk.timeline
  /\ session = "Ready"
  /\ clicks = 0
  /\ steps = [idle |-> 0, walk |-> 0, games |-> 0, keys |-> 0, dropped |-> 0]
  /\ op = NoOp
  /\ fired = <<>>
  /\ arm = "init"
  /\ script = [kind |-> "fresh", n |-> 0]

\* no frame callback is running, nothing is accumulated, no key is pressed
NoFrame ==
  [pc |-> "idle", perf |-> 0, pending |-> 1, acc0 |-> 0, elapsed |-> 0,
   updates |-> 0, effects |-> <<>>, start |-> 0, total |-> 0,
   keys0 |-> {}, drained |-> <<>>, seen |-> {}, failed |-> "none"]

LoopAtRest ==
  /\ game_loop = [accumulated_delta |-> 0, last_frame |-> 0]
  /\ keystate = {}
  /\ keyevent_receiver = <<>>
  /\ raf = NoFrame

GameInit == WorldInit /\ LoopAtRest

\* the updates of the session under any keys, and the clicks (a Walking
\* update is the same with and without ArrowRight, which it does not read)
GameNext ==
  \/ \E keys \in SUBSET Keys : ReadyUpdate(keys) /\ UNCHANGED loopVars
  \/ \E keys \in SUBSET WalkingKeys : WalkingUpdate(keys) /\ UNCHANGED loopVars
  \/ GameOverUpdate /\ UNCHANGED loopVars
  \/ Click /\ UNCHANGED loopVars

GameSpec == GameInit /\ [][GameNext]_vars

(***************************************************************************)
(* The game loop (engine.rs, GameLoop::start).  Time is counted in thirds   *)
(* of a millisecond, so that the frame duration 1000/60 ms is the integer   *)
(* FRAME_SIZE and the f32 accumulator is exact.  The frame callback runs    *)
(* to its end before any other handler runs: the key handlers act only      *)
(* between callbacks.                                                       *)
(***************************************************************************)
\* browser::now() when the loop is started
StartTimes == {0, 40}

\* the time between two frame timestamps
FrameDeltas == {0, 20, 50, 70, 170}

LoopInit ==
  /\ WorldInit
  /\ \E now \in StartTimes :
       /\ game_loop = [accumulated_delta |-> 0, last_frame |-> now]
       /\ raf = [NoFrame EXCEPT !.start = now]
  /\ keystate = {}
  /\ keyevent_receiver = <<>>

\* the onkeydown / onkeyup closures of prepare_input
KeyPress(type, code) ==
  /\ raf.pc = "idle"
  /\ steps.keys < MaxKeyEvents
  /\ keyevent_receiver' = Append(keyevent_receiver, [type |-> type, code |-> code])
  /\ steps' = [steps EXCEPT !.keys = @ + 1]
  /\ UNCHANGED <<boy, arm, script, session, backgrounds, obstacles, timeline,
                 clicks, op, fired, game_loop, keystate, raf>>

KeyDown(code) == KeyPress("KeyDown", code)

KeyUp(code) == KeyPress("KeyUp", code)

\* mutant: a key, once pressed, stays pressed (KeyUp is dropped)
process_inputSticky(state, events, i) ==
  state \cup {events[j].code : j \in {k \in i .. Len(events) : events[k].type = "KeyDown"}}

\* process_input: the queued key events are applied in order
RECURSIVE process_input(_, _, _)
process_input(state, events, i) ==
  IF i > Len(events)
    THEN state
    ELSE process_input(IF events[i].type = "KeyUp"
                         THEN state \ {events[i].code}
                         ELSE state \cup {events[i].code},
                       events, i + 1)

\* mutant: the whole accumulator is spent on one update
SpendAll(accumulated_delta) == 0

\* accumulated_delta -= FRAME_SIZE
Spend(accumulated_delta) == accumulated_delta - FRAME_SIZE

\* mutant: a long pause is cut down to two frame durations
ElapsedCapped(perf, last_frame) ==
  IF perf - last_frame > 2 * FRAME_SIZE THEN 2 * FRAME_SIZE ELSE perf - last_frame

\* (perf - game_loop.last_frame) as f32
Elapsed(perf, last_frame) == perf - last_frame

\* the callback up to its loop: process_input, then the elapsed time is
\* added.  The scheduler calls a pending callback and forgets it.
FrameStart(perf) ==
  /\ raf.pc = "idle"
  /\ raf.pending > 0
  /\ perf <= MaxTime
  /\ keystate' = process_input(keystate, keyevent_receiver, 1)
  /\ keyevent_receiver' = <<>>
  /\ game_loop' = [game_loop EXCEPT
                     !.accumulated_delta = @ + Elapsed(perf, game_loop.last_frame)]
  /\ raf' = [raf EXCEPT !.pc = "loop", !.perf = perf, !.pending = @ - 1,
                        !.acc0 = game_loop.accumulated_delta,
                        !.elapsed = perf - game_loop.last_frame,
                        !.updates = 0, !.effects = <<"process_input">>,
                        !.keys0 = keystate, !.drained = keyevent_receiver,
                        !.seen = {}]
  /\ UNCHANGED <<boy, arm, script, session, backgrounds, obstacles, timeline,
                 clicks, steps, op, fired>>

\* one turn of `while accumulated_delta > FRAME_SIZE`
FrameUpdate ==
  /\ raf.pc = "loop"
  /\ game_loop.accumulated_delta > FRAME_SIZE
  /\ GameUpdate(keystate)
  /\ game_loop' = [game_loop EXCEPT !.accumulated_delta = Spend(@)]
  /\ raf' = [raf EXCEPT !.updates = @ + 1, !.total = @ + 1,
                        !.effects = Append(@, "update"),
                        !.seen = @ \cup {keystate}]
  /\ UNCHANGED <<keystate, keyevent_receiver>>

\* mutant: the next callback is requested before the game is drawn
AfterLoopEarlyRequest == <<"request_animation_frame", "draw">>

\* the statements after the loop that act on the outside: game.draw, then
\* browser::request_animation_frame
AfterLoop == <<"draw", "request_animation_frame">>

\* the callbacks the scheduler holds after these effects
Requested(effects) ==
  Len(SelectSeq(effects, LAMBDA e : e = "request_animation_frame"))

\* the loop is left: last_frame = perf, the game is drawn and the next
\* callback is requested
FrameEnd ==
  /\ raf.pc = "loop"
  /\ ~(game_loop.accumulated_delta > FRAME_SIZE)
  /\ game_loop' = [game_loop EXCEPT !.last_frame = raf.perf]
  /\ raf' = [raf EXCEPT !.pc = "idle", !.effects = @ \o AfterLoop,
                        !.pending = @ + Requested(AfterLoop)]
  /\ UNCHANGED <<boy, arm, script, session, backgrounds, obstacles, timeline,
                 clicks, steps, op, fired, keystate, keyevent_receiver>>

LoopNext ==
  \/ \E code \in Keys : KeyDown(code)
  \/ \E code \in Keys : KeyUp(code)
  \/ \E d \in FrameDeltas : FrameStart(game_loop.last_frame + d)
  \/ FrameUpdate
  \/ FrameEnd

LoopSpec == LoopInit /\ [][LoopNext]_vars

(***************************************************************************)
(* GameLoop::start from the beginning: the fallible steps of start and of   *)
(* WalkTheDog::initialize in the order of the code.  A step followed by `?` *)
(* returns its error from start; from_value(..).unwrap() panics.            *)
(***************************************************************************)
StartSteps ==
  <<[name |-> "prepare_input", class |-> "platform", exit |-> "error"],
    [name |-> "fetch_json rhb.json", class |-> "load", exit |-> "error"],
    [name |-> "from_value rhb.json", class |-> "sheet", exit |-> "panic"],
    [name |-> "load_image BG.png", class |-> "load", exit |-> "error"],
    [name |-> "load_image Stone.png", class |-> "load", exit |-> "error"],
    [name |-> "fetch_json tiles.json", class |-> "load", exit |-> "error"],
    [name |-> "load_image tiles.png", class |-> "load", exit |-> "error"],
    [name |-> "from_value tiles.json", class |-> "sheet", exit |-> "panic"],
    [name |-> "load_image rhb.png", class |-> "load", exit |-> "error"],
    [name |-> "Audio::new", class |-> "platform", exit |-> "error"],
    [name |-> "load_sound SFX_Jump_23.mp3", class |-> "load", exit |-> "error"],
    [name |-> "load_sound background_song.mp3", class |-> "load", exit |-> "error"],
    [name |-> "play_looping_sound background_song.mp3", class |-> "playback",
     exit |-> "error"],
    [name |-> "browser::now", class |-> "platform", exit |-> "error"],
    [name |-> "browser::context", class |-> "platform", exit |-> "error"],
    [name |-> "request_animation_frame", class |-> "platform", exit |-> "error"]>>

StepsOfClass(class) ==
  {StartSteps[i].name : i \in {j \in DOMAIN StartSteps : StartSteps[j].class = class}}

\* GameLoop::start has not run yet: no loop, no callback; the variables of
\* the game hold what initialize will build
StartInit ==
  /\ WorldInit
  /\ game_loop = [accumulated_delta |-> 0, last_frame |-> 0]
  /\ keystate = {}
  /\ keyevent_receiver = <<>>
  /\ raf = [NoFrame EXCEPT !.pc = "start", !.pending = 0]

\* mutant: the callback is requested whether or not a step has failed
RegisteredAlways(f) == 1

\* the callbacks requested by start when step f fails (0: no step fails)
Registered(f) == IF f = 0 THEN 1 ELSE 0

\* GameLoop::start; f is the first step that fails, 0 if none does
Start(f) ==
  /\ raf.pc = "start"
  /\ IF f = 0
       THEN \E now \in StartTimes :
              /\ game_loop' = [accumulated_delta |-> 0, last_frame |-> now]
              /\ raf' = [raf EXCEPT !.pc = "idle", !.start = now,
                                    !.pending = Registered(f)]
       ELSE /\ raf' = [raf EXCEPT !.pc = StartSteps[f].exit,
                                  !.failed = StartSteps[f].name,
                                  !.pending = Registered(f)]
            /\ UNCHANGED game_loop
  /\ UNCHANGED <<boy, arm, script, session, backgrounds, obstacles, timeline,
                 clicks, steps, op, fired, keystate, keyevent_receiver>>

StartNext ==
  \/ \E f \in 0 .. Len(StartSteps) : Start(f)
  \/ LoopNext

StartSpec == StartInit /\ [][StartNext]_vars

(***************************************************************************)
(* The character driven by arbitrary events: RedHatBoy::run_right, jump,    *)
(* slide, land_on, knock_out and update each replace state_machine by       *)
(* transition(state_machine, event).                                        *)
(***************************************************************************)
BoyInit == GameInit

BoyEvent(e) ==
  /\ boy' = transition(boy, e)
  /\ arm' = IF <<boy.state, e.type>> \in MatchArms THEN "arm" ELSE "self"
  /\ script' = ScriptNext(script, boy, e)
  /\ UNCHANGED <<walkVars, obsVars, loopVars>>

BoyNext == \E e \in Events : BoyEvent(e)

BoySpec == BoyInit /\ [][BoyNext]_vars

(***************************************************************************)
(* Obstacle::check_intersection applied to sampled characters and           *)
(* obstacles.  The characters are states of the state machine reached by    *)
(* short event scripts; the obstacles are a stone or a platform at          *)
(* positions around the character.                                          *)
(***************************************************************************)
RECURSIVE Updates(_, _)
Updates(b, n) ==
  IF n = 0
    THEN b
    ELSE Only({Updates(b1, n - 1) : b1 \in {transition(b, Ev("Update"))}})

RunningAt(n) == Updates(transition(IdleNew, Ev("Run")), n)

JumpingAt(n) == Updates(transition(RunningAt(1), Ev("Jump")), n)

BoySamples ==
  LET idle == {Updates(IdleNew, n) : n \in {0, 3}}
      running == {RunningAt(n) : n \in {0, 1, 25}}
      jumping == {JumpingAt(n) : n \in 0 .. MaxJumpSample}
      landed == {Updates(transition(JumpingAt(n), Land(y)), m) :
                   n \in {30, 40}, y \in LandPositions, m \in {0, 1}}
      sliding == {Updates(transition(RunningAt(1), Ev("Slide")), n) : n \in {0, 5}}
      alive == running \cup jumping \cup landed \cup sliding
      falling == {transition(b, Ev("KnockOut")) : b \in alive}
      out == {Updates(b, FALLING_FRAMES) : b \in falling}
  IN  idle \cup alive \cup falling \cup out

ObstacleSamples ==
  {Barrier(x, STONE_ON_GROUND) : x \in {-60, 2, 3, 40, 98, 99, 150}}
    \cup {Platform(x, y) : x \in {-400, -329, -300, -100, 50, 98, 99, 200},
                           y \in {LOW_PLATFORM, HIGH_PLATFORM}}

CollisionInit ==
  /\ boy \in BoySamples
  /\ \E o \in ObstacleSamples : obstacles = <<o>>
  /\ backgrounds = InitialWalk.backgrounds
  /\ timeline = 0
  /\ session = "Walking"
  /\ clicks = 0
  /\ steps = [idle |-> 0, walk |-> 0, games |-> 0, keys |-> 0, dropped |-> 0]
  /\ LoopAtRest
  /\ op = NoOp
  /\ fired = <<>>
  /\ arm = "init"
  /\ script = NoScript

Check ==
  /\ op = NoOp
  /\ LET e == CheckEvent(obstacles[1], boy)
     IN  fired' = IF e = NoEvent THEN <<>> ELSE <<e>>
  /\ boy' = check_intersection(obstacles[1], boy)
  /\ op' = Op("check_intersection")
  /\ UNCHANGED <<arm, script, walkVars, loopVars>>

CollisionSpec == CollisionInit /\ [][Check]_vars

(***************************************************************************)
(* The long walk: the Walking update as it acts on the obstacle list and    *)
(* the timeline while the character runs on, no key pressed and no          *)
(* obstacle in its way (its collisions are left out).                       *)
(***************************************************************************)
ScrollInit ==
  /\ boy = transition(IdleNew, Ev("Run"))
  /\ backgrounds = InitialWalk.backgrounds
  /\ obstacles = InitialWalk.obstacles
  /\ timeline = InitialWalk.timeline
  /\ session = "Walking"
  /\ clicks = 0
  /\ steps = [idle |-> 0, walk |-> 0, games |-> 0, keys |-> 0, dropped |-> 0]
  /\ LoopAtRest
  /\ op = NoOp
  /\ fired = <<>>
  /\ arm = "init"
  /\ script = NoScript

MoveAll(list, v) == [i \in DOMAIN list |-> move_horizontally(list[i], v)]

ScrollUpdate ==
  /\ steps.walk < MaxScroll
  /\ \E b1 \in {InputAndUpdate(boy, {})} :
     \E walking_speed \in {velocity(b1)} :
     \E moved \in {MoveAll(Retain(obstacles), walking_speed)} :
       /\ boy' = b1
       /\ backgrounds' = ScrollBackgrounds(backgrounds, walking_speed)
       /\ IF needs_segment(timeline)
            THEN \E next_segment \in {0, 1} :
                 \E w \in {generate_next_segment(
                             [obstacles |-> moved, timeline |-> timeline],
                             next_segment)} :
                   /\ obstacles' = w.obstacles
                   /\ timeline' = w.timeline
                   /\ op' = [Op("walking_update") EXCEPT
                               !.v = walking_speed, !.gen = next_segment]
            ELSE /\ obstacles' = moved
                 /\ timeline' = I16(timeline + walking_speed)
                 /\ op' = [Op("walking_update") EXCEPT !.v = walking_speed]
  /\ fired' = <<Ev("Update")>>
  /\ steps' = [steps EXCEPT !.walk = @ + 1]
  /\ UNCHANGED <<session, clicks, arm, script, loopVars>>

SegmentSpec == ScrollInit /\ [][ScrollUpdate]_vars

(***************************************************************************)
(* Properties of the character state machine.                               *)
(***************************************************************************)

\* The rows of the transition table of the design document (section 4.2).
SpecTable ==
  {<<"Idle", "Run">>, <<"Idle", "Update">>,
   <<"Running", "Jump">>, <<"Running", "Slide">>, <<"Running", "KnockOut">>,
   <<"Running", "Land">>, <<"Running", "Update">>,
   <<"Jumping", "Land">>, <<"Jumping", "KnockOut">>, <<"Jumping", "Update">>,
   <<"Sliding", "Land">>, <<"Sliding", "KnockOut">>, <<"Sliding", "Update">>,
   <<"Falling", "Update">>, <<"KnockedOut", "Update">>}

\* C1: in every reachable character state S, every event E such that (S, E)
\* is not a row of the transition table leaves the state machine as it is:
\* transition(S, E) = S, same variant and same context.
C1_SelfLoopTotality ==
  \A e \in Events :
    <<boy.state, e.type>> \notin SpecTable => transition(boy, e) = boy

\* an event without a row (the `_ => self` arm) has been applied to a
\* Falling character in the middle of its animation
C1_Witness ==
  /\ arm = "self"
  /\ boy.state = "Falling"
  /\ boy.frame > 0

\* C2: velocity.y never exceeds TERMINAL_VELOCITY, whatever the events.
C2_TerminalVelocity == boy.vy <= TERMINAL_VELOCITY

\* a jump has lasted long enough for gravity to reach the terminal velocity
C2_Witness ==
  /\ boy.state = "Jumping"
  /\ boy.vy = TERMINAL_VELOCITY

\* C3: after Run and any number of Update and further Run events (nothing
\* else) the character is Running with velocity.x = RUNNING_SPEED.
C3_RunIdempotent ==
  script.kind = "run" => boy.state = "Running" /\ boy.vx = RUNNING_SPEED

\* a further Run has been absorbed by a Running character
C3_Witness ==
  /\ script.kind = "run"
  /\ arm = "self"
  /\ boy.state = "Running"
  /\ boy.frame > 0

\* The progress measure of a jump: gravity raises velocity.y up to the
\* terminal velocity, and from then on position.y approaches the floor.
JumpMeasureLess(b2, b1) ==
  \/ TERMINAL_VELOCITY - b2.vy < TERMINAL_VELOCITY - b1.vy
  \/ /\ b2.vy = b1.vy
     /\ FLOOR - b2.py < FLOOR - b1.py

\* C4 as claimed: the auto-landing of a jump leaves position.y at
\* FLOOR - PLAYER_HEIGHT.
C4_AsClaimed ==
  (script.kind = "jump" /\ boy.state = "Running")
    => boy.py = FLOOR - PLAYER_HEIGHT

\* an Update of the scenario "Jump, then Updates only"
JumpUpdateStep ==
  /\ script.kind = "jump"
  /\ script'.kind = "jump"
  /\ script'.n = script.n + 1

\* C4 (amended): from Running, Jump makes the character Jumping with
\* velocity.y = JUMP_SPEED; every following Update whose integrated
\* position (y + velocity.y) stays above FLOOR keeps it Jumping strictly
\* above the floor and decreases the progress measure, so the floor is
\* reached after finitely many Updates; the Update whose integrated
\* position reaches FLOOR makes it Running with frame 0 and
\* position.y = HEIGHT - PLAYER_HEIGHT = FLOOR, never below the floor line.
C4_JumpLands ==
  [][ /\ (script'.kind = "jump" /\ script'.n = 0) =>
           /\ boy.state = "Running"
           /\ boy'.state = "Jumping"
           /\ boy'.vy = JUMP_SPEED
           /\ boy'.py <= FLOOR
      /\ JumpUpdateStep =>
           /\ boy.state = "Jumping"
           /\ boy'.vy <= TERMINAL_VELOCITY
           /\ IF boy.py + boy'.vy >= FLOOR
                THEN /\ boy'.state = "Running"
                     /\ boy'.frame = 0
                     /\ boy'.py = HEIGHT - PLAYER_HEIGHT
                     /\ boy'.py = FLOOR
                ELSE /\ boy'.state = "Jumping"
                     /\ boy'.py < FLOOR
                     /\ JumpMeasureLess(boy', boy)
    ]_vars

\* a jump started on a platform has come down to the floor
C4_Witness ==
  /\ script.kind = "jump"
  /\ script.n > 2 * (-JUMP_SPEED)
  /\ boy.state = "Running"
  /\ boy.py = FLOOR

\* C5: Slide applied to a Running character and followed by exactly
\* SLIDING_FRAMES Updates gives Running with frame 0; followed by
\* SLIDING_FRAMES - 1 Updates it is still Sliding.
C5_SlideLength ==
  /\ (script.kind = "slide" /\ script.n = SLIDING_FRAMES)
       => boy.state = "Running" /\ boy.frame = 0
  /\ (script.kind = "slide" /\ script.n = SLIDING_FRAMES - 1)
       => boy.state = "Sliding"

\* the slide has just ended: SLIDING_FRAMES Updates after the Slide
C5_Witness ==
  /\ script.kind = "slide"
  /\ script.n = SLIDING_FRAMES
  /\ boy.state = "Running"

(***************************************************************************)
(* Properties of the collisions.                                            *)
(***************************************************************************)

\* two rectangles share a region: their projections on both axes overlap
Lower(m, n) == IF m < n THEN m ELSE n

Higher(m, n) == IF m > n THEN m ELSE n

Overlap(a, b) ==
  /\ Higher(a.x, b.x) < Lower(a.x + a.width, b.x + b.width)
  /\ Higher(a.y, b.y) < Lower(a.y + a.height, b.y + b.height)

CheckStep == op'.name = "check_intersection"

\* C6: Barrier.check_intersection fires KnockOut on the character whenever
\* the character's bounding box overlaps the barrier's, for every value and
\* sign of velocity.y, and fires nothing when the boxes do not overlap.
C6_BarrierKnockOut ==
  [][ (CheckStep /\ obstacles[1].kind = "Barrier") =>
        IF Overlap(bounding_box(boy), obstacles[1].image)
          THEN /\ fired' = <<Ev("KnockOut")>>
               /\ boy' = transition(boy, Ev("KnockOut"))
          ELSE /\ fired' = <<>>
               /\ boy' = boy
    ]_vars

\* a character still rising in its jump has been knocked out by a stone
C6_Witness ==
  /\ op.name = "check_intersection"
  /\ obstacles[1].kind = "Barrier"
  /\ fired = <<Ev("KnockOut")>>
  /\ boy.state = "Falling"
  /\ boy.frame = 0
  /\ boy.vy < 0

\* the indices of the platform's boxes that the character's box overlaps
Overlapped(p, b) ==
  {i \in DOMAIN p.bounding_boxes : Overlap(bounding_box(b), p.bounding_boxes[i])}

\* C7: Platform.check_intersection, when the character's bounding box
\* overlaps at least one of the platform's boxes, fires Land(y of the first
\* overlapping box in list order) if velocity.y > 0 and position.y is
\* strictly less than the platform's position.y, and KnockOut in every other
\* overlapping case; with no overlap it fires nothing.
C7_PlatformLandOrKnockOut ==
  [][ (CheckStep /\ obstacles[1].kind = "Platform") =>
        LET p == obstacles[1]
            hits == Overlapped(p, boy)
        IN  IF hits = {}
              THEN /\ fired' = <<>>
                   /\ boy' = boy
              ELSE LET first == CHOOSE i \in hits : \A j \in hits : i <= j
                       e == IF boy.vy > 0 /\ boy.py < p.y
                              THEN Land(p.bounding_boxes[first].y)
                              ELSE Ev("KnockOut")
                   IN  /\ fired' = <<e>>
                       /\ boy' = transition(boy, e)
    ]_vars

\* a descending character has landed on a platform whose first box it does
\* not touch
C7_Witness ==
  /\ op.name = "check_intersection"
  /\ obstacles[1].kind = "Platform"
  /\ fired = <<Land(obstacles[1].y)>>
  /\ boy.state = "Running"
  /\ boy.py = obstacles[1].y - PLAYER_HEIGHT
  /\ ~Overlap(bounding_box([boy EXCEPT !.py = obstacles[1].y - 1]),
              obstacles[1].bounding_boxes[1])

(***************************************************************************)
(* Properties of the world.                                                 *)
(***************************************************************************)

\* the x of an obstacle: of the stone's image, of the platform's position
ObstacleX(o) == IF o.kind = "Barrier" THEN o.image.x ELSE o.x

\* an update that has called generate_next_segment
GenerateStep == op'.name = "walking_update" /\ op'.gen # -1

\* C8: every call of generate_next_segment appends the new obstacles at the
\* end of the obstacle list without changing or reordering the existing
\* ones (the list as the update has scrolled it), places every new obstacle
\* at x >= timeline_before + OBSTACLE_BUFFER, and sets timeline to
\* rightmost(new obstacles), strictly greater than
\* timeline_before + OBSTACLE_BUFFER.
C8_AppendOnly ==
  [][ GenerateStep =>
        LET existing == MoveAll(Retain(obstacles), op'.v)
            n == Len(existing)
            new == SubSeq(obstacles', n + 1, Len(obstacles'))
        IN  /\ Len(obstacles') > n
            /\ SubSeq(obstacles', 1, n) = existing
            /\ \A i \in DOMAIN new :
                 ObstacleX(new[i]) >= timeline + OBSTACLE_BUFFER
            /\ timeline' = rightmost(new)
            /\ timeline' > timeline + OBSTACLE_BUFFER
    ]_vars

\* a segment has been appended behind obstacles that were on the list, some
\* of the earlier ones having scrolled off
C8_Witness ==
  /\ op.name = "walking_update"
  /\ op.gen # -1
  /\ Len(obstacles) > 2
  /\ steps.walk > 1
  /\ timeline > TIMELINE_MINIMUM

\* C10: a restart from GameOver yields a Ready session whose character is
\* Idle at (STARTING_POINT, FLOOR) with zero velocity and frame 0, whose
\* obstacle list is the starting segment stone_and_platform(0) and whose
\* timeline is rightmost of that segment, whatever the replaced world was.
C10_RestartFresh ==
  op.name = "new_game" =>
    /\ session = "Ready"
    /\ boy = [state |-> "Idle", frame |-> 0, px |-> STARTING_POINT,
              py |-> FLOOR, vx |-> 0, vy |-> 0]
    /\ obstacles = stone_and_platform(0)
    /\ timeline = rightmost(stone_and_platform(0))

\* a game that went on for some updates has been restarted
C10_Witness ==
  /\ op.name = "new_game"
  /\ session = "Ready"
  /\ steps.games = 1
  /\ steps.walk > FALLING_FRAMES

(***************************************************************************)
(* Properties of the game loop.                                             *)
(***************************************************************************)

\* C9: starting with accumulator 0, a frame callback whose elapsed time is
\* (k + f) * FRAME_SIZE with integer k >= 0 and 0 < f < 1 performs exactly
\* k logical updates and leaves the accumulator at f * FRAME_SIZE.
C9_FixedTimestep ==
  (raf.pc = "idle" /\ raf.acc0 = 0 /\ raf.elapsed % FRAME_SIZE # 0) =>
    /\ raf.updates = raf.elapsed \div FRAME_SIZE
    /\ game_loop.accumulated_delta = raf.elapsed % FRAME_SIZE

\* the case of the design document: 3.4 frame durations have elapsed, the
\* callback has ended after 3 updates with 0.4 frame durations left
C9_Witness ==
  /\ raf.pc = "idle"
  /\ raf.acc0 = 0
  /\ 10 * raf.elapsed = 34 * FRAME_SIZE
  /\ raf.updates = 3
  /\ 10 * game_loop.accumulated_delta = 4 * FRAME_SIZE
  /\ game_loop.last_frame = raf.perf

\* n times "update"
UpdatesOnly(n) == [i \in 1 .. n |-> "update"]

\* C11: every frame callback performs its side effects in the fixed order:
\* drain queued input, then zero or more logical updates, then exactly one
\* draw, then exactly one re-registration of the callback; at most one
\* callback is pending at any time and no update follows the draw.
C11_CallbackOrder ==
  /\ raf.pending <= 1
  /\ raf.pc = "loop" =>
       /\ raf.pending = 0
       /\ raf.effects = <<"process_input">> \o UpdatesOnly(raf.updates)
  /\ (raf.pc = "idle" /\ raf.effects # <<>>) =>
       /\ raf.pending = 1
       /\ raf.effects =
            <<"process_input">> \o UpdatesOnly(raf.updates)
              \o <<"draw", "request_animation_frame">>

\* a callback that made several updates has ended
C11_Witness ==
  /\ raf.pc = "idle"
  /\ raf.updates >= 2
  /\ Len(raf.effects) = raf.updates + 3
  /\ raf.pending = 1

\* C12: no elapsed time is lost: after every callback the time elapsed since
\* the loop's start equals FRAME_SIZE times the number of logical updates
\* made plus the accumulator, and 0 <= accumulator <= FRAME_SIZE, however
\* long a pause was.
C12_NoTimeLost ==
  raf.pc = "idle" =>
    /\ game_loop.last_frame - raf.start
         = FRAME_SIZE * raf.total + game_loop.accumulated_delta
    /\ 0 <= game_loop.accumulated_delta
    /\ game_loop.accumulated_delta <= FRAME_SIZE

\* after a pause of more than three frame durations and a later callback
\* the accumulator holds exactly one frame duration
C12_Witness ==
  /\ raf.pc = "idle"
  /\ raf.total >= 3
  /\ raf.total > raf.updates
  /\ game_loop.accumulated_delta = FRAME_SIZE
  /\ \E d \in FrameDeltas : d > 3 * FRAME_SIZE /\ game_loop.last_frame - raf.start > d

(***************************************************************************)
(* Properties of the session.                                               *)
(***************************************************************************)

SessionCycle ==
  {<<"Ready", "Walking">>, <<"Walking", "GameOver">>, <<"GameOver", "Ready">>}

\* C13: the session changes only along Ready -> Walking -> GameOver ->
\* Ready: Ready -> Walking exactly in a Ready update at which ArrowRight is
\* pressed (it fires Run, the character leaves as Running); Walking ->
\* GameOver exactly in a Walking update at whose end the character is
\* KnockedOut; GameOver -> Ready exactly in a GameOver update that receives
\* a restart signal.
C13_SessionCycle ==
  [][ /\ session' # session => <<session, session'>> \in SessionCycle
      /\ (session = "Ready" /\ session' = "Walking")
           <=> (session = "Ready" /\ op'.name = "ready_update" /\ op'.start)
      /\ (session = "Ready" /\ session' = "Walking")
           => /\ boy'.state = "Running"
              /\ fired' = <<Ev("Update"), Ev("Run")>>
      /\ (session = "Walking" /\ session' = "GameOver")
           <=> /\ session = "Walking"
               /\ op'.name = "walking_update"
               /\ boy'.state = "KnockedOut"
      /\ (session = "GameOver" /\ session' = "Ready")
           <=> /\ session = "GameOver"
               /\ op'.name \in {"new_game", "game_over_update"}
               /\ clicks > 0
    ]_vars

\* the cycle has been closed and a second walk has begun
C13_Witness ==
  /\ steps.games = 1
  /\ session = "Walking"
  /\ op.name = "ready_update"
  /\ op.start
  /\ boy.state = "Running"

\* C14: between logical updates the session and the character agree: Ready
\* implies Idle, Walking implies Running, Jumping, Sliding or Falling,
\* GameOver implies KnockedOut.
C14_SessionAgreesWithCharacter ==
  /\ session = "Ready" => boy.state = "Idle"
  /\ session = "Walking" =>
       boy.state \in {"Running", "Jumping", "Sliding", "Falling"}
  /\ session = "GameOver" => boy.state = "KnockedOut"

\* the game has ended and a GameOver update has left the knocked out
\* character as it was
C14_Witness ==
  /\ session = "GameOver"
  /\ boy.state = "KnockedOut"
  /\ op.name = "game_over_update"
  /\ steps.walk > FALLING_FRAMES

\* the last event of a key in a queue of key events (0: none)
LastEventOf(code, events) ==
  LET at == {i \in DOMAIN events : events[i].code = code}
  IN  IF at = {} THEN 0 ELSE CHOOSE i \in at : \A j \in at : j <= i

\* the keys down after the events: a key follows its last event, a key
\* without event stays as it was
LevelSampled(keys0, events) ==
  {code \in Keys :
     IF LastEventOf(code, events) = 0
       THEN code \in keys0
       ELSE events[LastEventOf(code, events)].type = "KeyDown"}

\* C15: keyboard input is level-sampled: every callback first drains all
\* queued key events in order into the key state, before any logical
\* update; every update of the callback is given that same key state; a key
\* pressed and released between two callbacks is seen pressed by no update.
C15_LevelSampled ==
  /\ raf.pc = "loop" => keyevent_receiver = <<>>
  /\ keystate = LevelSampled(raf.keys0, raf.drained)
  /\ raf.seen \subseteq {keystate}
  /\ raf.updates > 0 => raf.seen = {keystate}
  /\ \A code \in Keys :
       (/\ LastEventOf(code, raf.drained) # 0
        /\ raf.drained[LastEventOf(code, raf.drained)].type = "KeyUp")
         => \A keys \in raf.seen : code \notin keys

\* Space was pressed and released before the callback, whose updates have
\* not seen it pressed
C15_Witness ==
  /\ raf.pc = "idle"
  /\ raf.drained = <<[type |-> "KeyDown", code |-> "Space"],
                     [type |-> "KeyUp", code |-> "Space"]>>
  /\ raf.updates >= 2
  /\ raf.seen = {{}}

\* C16: the restart signal is one-shot: a click queued during a GameOver
\* session causes at most one GameOver -> Ready transition, at a GameOver
\* update that takes it from the channel; the clicks left in the channel
\* are dropped with it and cause no restart in a later GameOver session,
\* which starts with an empty channel.
C16_OneShotRestart ==
  [][ /\ session # "GameOver" => clicks = 0
      /\ (session # "GameOver" /\ session' = "GameOver") => clicks' = 0
      /\ (session = "GameOver" /\ session' = "Ready") =>
           /\ clicks > 0
           /\ clicks' = 0
           /\ steps'.games = steps.games + 1
           /\ steps'.dropped = steps.dropped + (clicks - 1)
      /\ (session = "GameOver" /\ op'.name = "game_over_update" /\ clicks = 0)
           => session' = "GameOver"
    ]_vars

\* two clicks were queued in the first GameOver session and one restarted
\* the game; the second game is over and its update finds no click
C16_Witness ==
  /\ steps.games = 1
  /\ steps.dropped = 1
  /\ session = "GameOver"
  /\ op.name = "game_over_update"
  /\ clicks = 0

(***************************************************************************)
(* Properties of the startup.                                               *)
(***************************************************************************)

C18_AsClaimed ==
  raf.failed \in StepsOfClass("playback") => raf.pc \in {"idle", "loop"}

(***************************************************************************)
(* Properties of the scrolling world.                                       *)
(***************************************************************************)

\* a Walking update
WalkingStep == op'.name = "walking_update"

\* the segments the generator can make at timeline t
SegmentsAt(t) ==
  {stone_and_platform(t + OBSTACLE_BUFFER), platform_and_stone(t + OBSTACLE_BUFFER)}

\* C19: a Walking update that finds timeline < TIMELINE_MINIMUM at its
\* generation check generates exactly one new segment and ends with
\* timeline >= TIMELINE_MINIMUM; one that finds timeline >= TIMELINE_MINIMUM
\* generates nothing and changes timeline by its scroll amount.
C19_LookaheadRestored ==
  [][ WalkingStep =>
        LET existing == MoveAll(Retain(obstacles), op'.v)
        IN  IF timeline < TIMELINE_MINIMUM
              THEN /\ op'.gen # -1
                   /\ \E segment \in SegmentsAt(timeline) :
                        obstacles' = existing \o segment
                   /\ timeline' >= TIMELINE_MINIMUM
              ELSE /\ op'.gen = -1
                   /\ obstacles' = existing
                   /\ timeline' = timeline + op'.v
    ]_vars

\* the timeline has come down to the minimum exactly and nothing has been
\* generated yet
C19_Witness ==
  /\ op.name = "walking_update"
  /\ op.gen = -1
  /\ op.v = -RUNNING_SPEED
  /\ timeline = TIMELINE_MINIMUM
  /\ steps.walk > 1

\* the right edges of the obstacles are all beyond x
AllRightOf(list, x) == \A i \in DOMAIN list : obstacle_right(list[i]) > x

\* C20 as claimed: at the end of every Walking update no obstacle with
\* right() <= 0 remains in the list (and so none was collision-checked).
C20_AsClaimed == op.name = "walking_update" => AllRightOf(obstacles, 0)

\* C20 (amended): in each Walking update the drop happens before the
\* scroll: the obstacles that the update scrolls and collision-checks are
\* those whose right() was > 0 before the scroll, so at the end of the
\* update every obstacle has right() > the scroll amount (which is <= 0),
\* and an obstacle left with right() <= 0 is dropped by the next Walking
\* update.
C20_DropBeforeScroll ==
  [][ WalkingStep =>
        LET kept == Retain(obstacles)
            checked == SubSeq(obstacles', 1, Len(kept))
        IN  /\ op'.v <= 0
            /\ AllRightOf(kept, 0)
            /\ Len(obstacles') >= Len(kept)
            /\ checked = MoveAll(kept, op'.v)
            /\ AllRightOf(obstacles', op'.v)
            /\ \A i \in DOMAIN obstacles :
                 obstacle_right(obstacles[i]) <= 0 =>
                   \A j \in DOMAIN obstacles' :
                     obstacles'[j] # move_horizontally(obstacles[i], op'.v)
    ]_vars

\* the stone has been scrolled past the left edge in this update and is
\* still on the list
C20_Witness ==
  /\ op.name = "walking_update"
  /\ session = "Walking"
  /\ Len(obstacles) > 0
  /\ obstacles[1].kind = "Barrier"
  /\ obstacle_right(obstacles[1]) <= 0

(***************************************************************************)
(* Further properties of the character state machine.                       *)
(***************************************************************************)

\* C21 as claimed: immediately after any transition whose resulting state
\* variant differs from the source variant, context.frame = 0.
C21_AsClaimed == [][ boy'.state # boy.state => boy'.frame = 0 ]_vars

\* C21 (amended): immediately after a transition whose resulting variant
\* differs from the source variant the frame counter is 0, except after
\* Falling -> KnockedOut, which keeps the frame the fall ended with,
\* FALLING_FRAMES.
C21_FrameResetOnEntry ==
  [][ boy'.state # boy.state =>
        IF boy.state = "Falling" /\ boy'.state = "KnockedOut"
          THEN boy'.frame = FALLING_FRAMES
          ELSE boy'.frame = 0
    ]_vars

\* the character has just become KnockedOut: it was knocked out at the
\* start of a jump and the fall has not lasted one Update longer than
\* FALLING_FRAMES
C21_Witness ==
  /\ boy.state = "KnockedOut"
  /\ boy.vy = JUMP_SPEED + FALLING_FRAMES
  /\ boy.frame = FALLING_FRAMES
  /\ arm = "arm"

\* C22: in every state reachable in the game (session updates under any
\* keys, collisions with the generated stones and platforms, restarts) the
\* character's position.y is at most FLOOR.
C22_NeverBelowFloor == boy.py <= FLOOR

\* a Walking update has landed the character on a platform, above the floor
C22_Witness ==
  /\ op.name = "walking_update"
  /\ boy.state = "Running"
  /\ \E i \in DOMAIN fired :
       /\ fired[i].type = "Land"
       /\ boy.py = fired[i].position - PLAYER_HEIGHT
  /\ boy.py < FLOOR

\* velocity.y after gravity, and position.y after the advance and the clamp
GravityApplied(vy) == IF vy < TERMINAL_VELOCITY THEN vy + GRAVITY ELSE vy

Clamped(y) == IF y > FLOOR THEN FLOOR ELSE y

\* C23 as claimed: every Update, in every character state, first increases
\* velocity.y by GRAVITY if below TERMINAL_VELOCITY, then advances the
\* position by the velocity on both axes (x' = x + velocity.x,
\* y' = y + the updated velocity.y), then clamps y' to at most FLOOR.
C23_AsClaimed ==
  LET b2 == transition(boy, Ev("Update"))
  IN  /\ b2.vy = GravityApplied(boy.vy)
      /\ b2.px = boy.px + boy.vx
      /\ b2.py = Clamped(boy.py + GravityApplied(boy.vy))

\* C23 (amended): every Update, in every character state, integrates
\* physics from the velocity and position it finds: velocity.y is first
\* increased by GRAVITY if below TERMINAL_VELOCITY, then position.y
\* advances by the already-updated velocity.y and is clamped to at most
\* FLOOR; position.x is not advanced and velocity.x is not changed (the
\* character's x is fixed, the world scrolls by -velocity.x instead).
C23_PhysicsFirst ==
  LET b2 == transition(boy, Ev("Update"))
  IN  /\ b2.vy = GravityApplied(boy.vy)
      /\ b2.px = boy.px
      /\ b2.vx = boy.vx
      /\ b2.py = Clamped(boy.py + GravityApplied(boy.vy))

\* Updates have acted on a character that moves to the right and is still
\* rising in its jump: its x is where it started
C23_Witness ==
  /\ boy.state = "Jumping"
  /\ boy.frame > 0
  /\ boy.vx = RUNNING_SPEED
  /\ boy.vy < 0
  /\ boy.px = STARTING_POINT

(***************************************************************************)
(* Further properties of the session and the world.                         *)
(***************************************************************************)

\* the variants of a character that is still in the game
Alive == {"Running", "Jumping", "Sliding"}

\* the event types fired by the last operation
FiredTypes(events) == {events[i].type : i \in DOMAIN events}

\* C24: a KnockOut received while Running, Jumping or Sliding makes the
\* character Falling with velocity.x = 0 and frame 0; from then on no event
\* returns it to Running, Jumping or Sliding; it stays Falling for
\* FALLING_FRAMES - 1 Updates (the frame counter counts them), becomes
\* KnockedOut on exactly the FALLING_FRAMES-th Update, and the Walking
\* update that performs that Update ends in GameOver.
C24_KnockOutIsFinal ==
  [][ /\ (boy.state \in Alive /\ "KnockOut" \in FiredTypes(fired')) =>
           boy'.state = "Falling"
      /\ (boy.state \in Alive /\ boy'.state = "Falling") =>
           /\ "KnockOut" \in FiredTypes(fired')
           /\ boy'.vx = 0
           /\ boy'.frame = 0
           /\ session' = "Walking"
      /\ boy.state = "Falling" =>
           /\ \A e \in Events :
                /\ transition(boy, e).state \in {"Falling", "KnockedOut"}
                /\ e.type # "Update" => transition(boy, e) = boy
           /\ session = "Walking"
           /\ boy'.vx = 0
           /\ IF boy.frame = FALLING_FRAMES - 1
                THEN /\ boy'.state = "KnockedOut"
                     /\ session' = "GameOver"
                ELSE /\ boy'.state = "Falling"
                     /\ boy'.frame = boy.frame + 1
                     /\ session' = "Walking"
    ]_vars

\* the fall has ended in this Walking update, which has fired one more
\* KnockOut at the character (the obstacle it hit is still in its way) and
\* has ended the game
C24_Witness ==
  /\ op.name = "walking_update"
  /\ session = "GameOver"
  /\ boy.state = "KnockedOut"
  /\ boy.frame = FALLING_FRAMES
  /\ "KnockOut" \in FiredTypes(fired)

\* C25: KnockedOut is absorbing and its animation is frozen: every event
\* leaves the character KnockedOut, events other than Update change
\* nothing, and an Update leaves the frame counter at the value it had (the
\* frame the fall ended with, FALLING_FRAMES) while gravity and the floor
\* clamp still act on velocity.y and position.y.
C25_KnockedOutFrozen ==
  boy.state = "KnockedOut" =>
    /\ boy.frame = FALLING_FRAMES
    /\ \A e \in Events :
         /\ transition(boy, e).state = "KnockedOut"
         /\ e.type # "Update" => transition(boy, e) = boy
    /\ LET b2 == transition(boy, Ev("Update"))
       IN  /\ b2.frame = boy.frame
           /\ b2.vy = GravityApplied(boy.vy)
           /\ b2.py = Clamped(boy.py + GravityApplied(boy.vy))
           /\ b2.px = boy.px
           /\ b2.vx = boy.vx

\* a knocked out character is still in the air and slower than the terminal
\* velocity (gravity and the advance both act at its next Update), and an
\* event other than Update has just been ignored
C25_Witness ==
  /\ boy.state = "KnockedOut"
  /\ boy.vy > 0
  /\ boy.vy < TERMINAL_VELOCITY
  /\ boy.py + boy.vy < FLOOR
  /\ arm = "self"

\* C26: there is no scrolling outside Walking: every update in Ready and
\* every update in GameOver that does not restart leaves the obstacle list,
\* both background positions and the timeline unchanged; in GameOver the
\* character (state, position, velocity, frame) is unchanged as well.
C26_NoScrollOutsideWalking ==
  [][ /\ session = "Ready" =>
           /\ op'.name = "ready_update"
           /\ obstacles' = obstacles
           /\ backgrounds' = backgrounds
           /\ timeline' = timeline
      /\ (session = "GameOver" /\ op'.name = "game_over_update") =>
           /\ session' = "GameOver"
           /\ obstacles' = obstacles
           /\ backgrounds' = backgrounds
           /\ timeline' = timeline
           /\ boy' = boy
    ]_vars

\* a GameOver update has left the character where the end of its fall
\* found it, in the air, with the world scrolled as the walk left it
C26_Witness ==
  /\ op.name = "game_over_update"
  /\ session = "GameOver"
  /\ boy.py < FLOOR
  /\ backgrounds # InitialWalk.backgrounds
  /\ timeline # InitialWalk.timeline

\* C27: the two background tiles always tile seamlessly: after every
\* logical update in every session state, and after restarts, one tile's x
\* equals the other tile's right edge.
C27_BackgroundsAdjacent ==
  \/ backgrounds[1] = backgrounds[2] + BackgroundImage.width
  \/ backgrounds[2] = backgrounds[1] + BackgroundImage.width

\* in the second game the first tile has left the screen and has been put
\* behind the second one
C27_Witness ==
  /\ steps.games = 1
  /\ op.name = "walking_update"
  /\ backgrounds[1] = backgrounds[2] + BackgroundImage.width
  /\ backgrounds[2] < 0

\* the keys of a Walking update, read off the events it fired (a collision
\* fires neither Slide nor Jump)
KeysOf(events) ==
  {code \in WalkingKeys :
     \/ code = "ArrowDown" /\ "Slide" \in FiredTypes(events)
     \/ code = "Space" /\ "Jump" \in FiredTypes(events)}

\* the obstacles of a list checked once each, in list order, against the
\* character as the earlier checks left it: the character at the end and
\* the events fired
RECURSIVE CheckedInOrder(_, _, _)
CheckedInOrder(list, b, i) ==
  IF i > Len(list)
    THEN [boy |-> b, events |-> <<>>]
    ELSE Only({Only({[boy |-> rest.boy,
                      events |-> (IF e = NoEvent THEN <<>> ELSE <<e>>)
                                   \o rest.events]
                       : rest \in {CheckedInOrder(list, Fire(b, e), i + 1)}})
                 : e \in {CheckEvent(list[i], b)}})

\* C28: in each Walking update every obstacle kept in the list is moved by
\* exactly v = -(velocity.x of the character right after that update's
\* character Update) and is collision-checked exactly once, after its own
\* move; both backgrounds move by the same v (one that has left the screen
\* is then put behind the other); the obstacles generated in that update
\* are neither moved nor checked in it; a KnockOut fired during the checks
\* changes neither the scroll amount of the remaining obstacles nor that of
\* the timeline in that update.
C28_ScrollThenCheck ==
  [][ WalkingStep =>
        \E keys \in {KeysOf(fired')} :
        \E b1 \in {InputAndUpdate(boy, keys)} :
        \E v \in {op'.v} :
        \E moved \in {MoveAll(Retain(obstacles), v)} :
        \E checked \in {CheckedInOrder(moved, b1, 1)} :
        \E generated \in {SubSeq(obstacles', Len(moved) + 1, Len(obstacles'))} :
          /\ v = -b1.vx
          /\ Len(obstacles') >= Len(moved)
          /\ SubSeq(obstacles', 1, Len(moved)) = moved
          /\ \A i \in 1 .. 2 :
               backgrounds'[i] - (backgrounds[i] + v)
                 \in {0, 2 * BackgroundImage.width}
          /\ fired' = Append(InputEvents(keys), Ev("Update")) \o checked.events
          /\ boy' = checked.boy
          /\ IF op'.gen = -1
               THEN /\ generated = <<>>
                    /\ timeline' = timeline + v
               ELSE generated \in SegmentsAt(timeline)
    ]_vars

\* a stone has knocked the running character out in this update, and the
\* platform behind it in the list has been scrolled by the running speed in
\* this update as in every update before, as has the timeline
C28_Witness ==
  /\ op.name = "walking_update"
  /\ op.v = -RUNNING_SPEED
  /\ op.gen = -1
  /\ "KnockOut" \in FiredTypes(fired)
  /\ boy.state = "Falling"
  /\ boy.frame = 0
  /\ boy.vx = 0
  /\ steps.games = 0
  /\ Len(obstacles) = 4
  /\ obstacles[1].kind = "Barrier"
  /\ obstacles[2].kind = "Platform"
  /\ intersects(bounding_box(boy), obstacles[1].image)
  /\ obstacles[2].x = FIRST_PLATFORM - RUNNING_SPEED * steps.walk
  /\ timeline = obstacle_right(obstacles[4])

\* C29: the timeline tracks the rightmost populated x: at initialization,
\* after every restart and at the end of every logical update in every
\* session state, timeline is the maximum right() over the obstacles in the
\* list.
C29_TimelineIsRightmost ==
  /\ \A i \in DOMAIN obstacles : obstacle_right(obstacles[i]) <= timeline
  /\ \E i \in DOMAIN obstacles : obstacle_right(obstacles[i]) = timeline

\* in the second game a segment has been generated, the world has scrolled
\* on and the first stone has been dropped from the list
C29_Witness ==
  /\ steps.games = 1
  /\ op.name = "walking_update"
  /\ op.gen = -1
  /\ op.v = -RUNNING_SPEED
  /\ Len(obstacles) = 3
  /\ obstacles[1].kind = "Platform"
  /\ timeline = obstacle_right(obstacles[3])
  /\ timeline > TIMELINE_MINIMUM

\* the obstacles of one kind in a list
OfKind(list, kind) == SelectSeq(list, LAMBDA o : o.kind = kind)

\* C30 as claimed: every generation appends one of the two templates, each
\* with exactly one Barrier and one Platform; stone_and_platform (draw 0)
\* places its Barrier to the left of its Platform and platform_and_stone
\* (draw 1) places its Platform to the left of its Barrier.
C30_AsClaimed ==
  (op.name = "walking_update" /\ op.gen # -1) =>
    LET n == Len(obstacles)
        new == SubSeq(obstacles, n - 1, n)
        barriers == OfKind(new, "Barrier")
        platforms == OfKind(new, "Platform")
    IN  /\ op.gen \in {0, 1}
        /\ Len(barriers) = 1
        /\ Len(platforms) = 1
        /\ IF op.gen = 0
             THEN ObstacleX(barriers[1]) < ObstacleX(platforms[1])
             ELSE ObstacleX(platforms[1]) < ObstacleX(barriers[1])

(***************************************************************************)
(* Properties of the animation and of the input order.                      *)
(***************************************************************************)

\* the frame count of the animation of a state
FrameCount(state) ==
  CASE state = "Idle" -> IDLE_FRAMES
    [] state = "Running" -> RUNNING_FRAMES
    [] state = "Jumping" -> JUMPING_FRAMES
    [] state = "Sliding" -> SLIDING_FRAMES
    [] state \in {"Falling", "KnockedOut"} -> FALLING_FRAMES

\* C31: in every state observable between events the frame counter is
\* within the bound of the current state's animation (Idle <= IDLE_FRAMES,
\* Running <= RUNNING_FRAMES, Jumping <= JUMPING_FRAMES,
\* Sliding < SLIDING_FRAMES, Falling < FALLING_FRAMES,
\* KnockedOut <= FALLING_FRAMES), so the index frame / 3 + 1 of the sprite
\* name never exceeds (frame count) / 3 + 1, also right after transitions
\* that do not reset the frame.
C31_FrameWithinAnimation ==
  /\ boy.frame >= 0
  /\ IF boy.state \in {"Sliding", "Falling"}
       THEN boy.frame < FrameCount(boy.state)
       ELSE boy.frame <= FrameCount(boy.state)
  /\ frame_name(boy)[2] >= 1
  /\ frame_name(boy)[2] <= (FrameCount(boy.state) \div 3) + 1

\* a Land has put the running character on a platform at the last frame of
\* its animation, without resetting the frame
C31_Witness ==
  /\ boy.state = "Running"
  /\ boy.frame = RUNNING_FRAMES
  /\ boy.py = LOW_PLATFORM - PLAYER_HEIGHT
  /\ boy.vy > 0
  /\ arm = "arm"

\* a Walking update of a Running character under the keys `keys`
RunningUnder(keys) ==
  /\ WalkingStep
  /\ boy.state = "Running"
  /\ KeysOf(fired') = keys

\* C32 as claimed: when ArrowDown and Space are both pressed while the
\* character is Running, the character ends that Walking update Sliding
\* (not Jumping) and velocity.y is not set to JUMP_SPEED; when only Space
\* is pressed, the Jump takes effect in the same update before physics is
\* integrated.
C32_AsClaimed ==
  [][ /\ RunningUnder({"ArrowDown", "Space"}) =>
           /\ boy'.state = "Sliding"
           /\ boy'.vy = GravityApplied(boy.vy)
      /\ RunningUnder({"Space"}) =>
           /\ boy'.vy = JUMP_SPEED + GRAVITY
           /\ boy'.py = Clamped(boy.py + JUMP_SPEED + GRAVITY)
    ]_vars

\* C32 (amended): in a Walking update the input events are fired before the
\* character Update and Slide is fired before Jump.  When ArrowDown and
\* Space are both pressed while the character is Running, the character is
\* Sliding (not Jumping) when the update's collision checks begin and
\* velocity.y is not set to JUMP_SPEED; it ends the update Sliding unless
\* one of those checks knocks it out, and then it ends the update Falling.
\* When only Space is pressed while Running, the Jump takes effect in the
\* same update before physics is integrated, and the character ends the
\* update Jumping unless a check knocks it out.
C32_SlideBeforeJump ==
  [][ /\ RunningUnder({"ArrowDown", "Space"}) =>
           /\ SubSeq(fired', 1, 3) = <<Ev("Slide"), Ev("Jump"), Ev("Update")>>
           /\ InputAndUpdate(boy, {"ArrowDown", "Space"}).state = "Sliding"
           /\ boy'.vy = GravityApplied(boy.vy)
           /\ boy'.py = Clamped(boy.py + GravityApplied(boy.vy))
                \/ "Land" \in FiredTypes(fired')
           /\ IF "KnockOut" \in FiredTypes(fired')
                THEN boy'.state = "Falling" /\ boy'.frame = 0
                ELSE boy'.state = "Sliding" /\ boy'.frame = 1
      /\ RunningUnder({"Space"}) =>
           /\ SubSeq(fired', 1, 2) = <<Ev("Jump"), Ev("Update")>>
           /\ boy'.vy = JUMP_SPEED + GRAVITY
           /\ boy'.py = Clamped(boy.py + JUMP_SPEED + GRAVITY)
           /\ IF "KnockOut" \in FiredTypes(fired')
                THEN boy'.state = "Falling" /\ boy'.frame = 0
                ELSE boy'.state = "Jumping" /\ boy'.frame = 1
    ]_vars

\* both keys were pressed in the last Walking update, which found the
\* character Running and has left it Sliding, one Update into the slide
C32_Witness ==
  /\ op.name = "walking_update"
  /\ fired = <<Ev("Slide"), Ev("Jump"), Ev("Update")>>
  /\ boy.state = "Sliding"
  /\ boy.frame = 1
  /\ boy.vy # JUMP_SPEED + GRAVITY
  /\ session = "Walking"

====
